---------------------------- MODULE Spec2Model ----------------------------
(***************************************************************************)
(* A model of the crawler's request scheduler: the Crawler class of        *)
(* src/src/logger.ts (constructor, add, _schedule, _execute, _handler and  *)
(* the "_release" listener) running on top of the rate-limiter cluster,    *)
(* with getCharset and getValidOptions of src/src/options.ts.              *)
(*                                                                         *)
(* The cluster and its limiters (./rateLimiter/index.js) are imported by   *)
(* logger.ts but their source is not part of src/; they are modelled from  *)
(* sections 3, 4.1 and 4.2 of spec.md.  Everything else is translated from *)
(* logger.ts.                                                              *)
(*                                                                         *)
(* Time.  A limiter keeps the timestamp of its last dispatch start and     *)
(* compares Date.now() against lastStart + rateLimit.  The model keeps the *)
(* difference Date.now() - lastStart of every limiter ("elapsed"), which   *)
(* Tick advances and which stops counting once it reaches the limiter's    *)
(* interval: beyond that point the comparison has one answer.  When        *)
(* setRateLimit raises the interval of a limiter whose difference had      *)
(* stopped counting, the difference is anything from where it stopped up   *)
(* to the new interval.                                                    *)
(*                                                                         *)
(* Suspension points.  A callback that the code hands to somebody else     *)
(* (the limiter's task, the pre-request hook's continuation, the           *)
(* transport's promise, the retry timer, the caller's completion callback  *)
(* holding release) runs as an action of its own.                          *)
(***************************************************************************)
EXTENDS Integers, Sequences, FiniteSets

\* ------------------------------------------------------------------ bounds
NumDesc == 3        \* descriptors submitted in one run
NumPipeline == 1    \* descriptors in the runs that vary the pipeline options
MaxRetries == 2     \* largest per-request retry count tried
MaxRelease == 2     \* times a completion callback may invoke release
MaxRate == 2        \* the nonzero rateLimit tried, in clock ticks
MaxConnections == 2 \* largest maxConnections tried
NumInputs == 3      \* elements handed to add() in the runs that vary them
NumRetry == 2       \* descriptors in the runs that retry under an interval
NumRotation == 2    \* descriptors in the runs that rotate user agent and proxy
NumSwitch == 2      \* descriptors in the runs that change the interval
NumSend == 2        \* descriptors in the runs that call send()
NumProgress == 2    \* descriptors in the runs that follow a limiter to its end
NumChange == 1      \* calls of setLimiter in those runs

\* -------------------------------------------------------- program constants
priorityLevels == 10
priority == 5
retries == 2
DefaultKey == 0
Undefined == 0 - 1

\* The per-request options that add() fills in when the caller leaves them
\* out: the defaults of the constructor, and "undefined" (or its like) for
\* what has no default.  userAgents and proxies are lists to rotate over, or
\* <<>> for a value that is not an array; proxy "" is no proxy, userAgent
\* is the user-agent header; htmlDeclares is the charset an inline body
\* declares in its text, htmlJson whether that text is JSON; release is
\* whether options.release has been set.
requestDefaults ==
    [forceUTF8 |-> FALSE, jQuery |-> TRUE, isJson |-> FALSE,
     userAgents |-> <<>>, userAgent |-> "", proxies |-> <<>>, proxy |-> "",
     encoding |-> "undefined", skipEventRequest |-> FALSE,
     htmlDeclares |-> "null", htmlJson |-> FALSE, release |-> FALSE]

\* setDefaults(options, defaults): the options, completed by the defaults.
SetDefaults(o, defaults) ==
    [f \in DOMAIN o \cup DOMAIN defaults |->
        IF f \in DOMAIN o THEN o[f] ELSE defaults[f]]

\* Crawler.options as far as a request reads it: the per-request defaults
\* of the constructor.
crawlerDefaults ==
    SetDefaults([priority |-> priority, retries |-> retries,
                 rateLimiterId |-> Undefined, html |-> FALSE,
                 callback |-> FALSE, preRequest |-> FALSE], requestDefaults)

\* The object o with its property f set to v.
With(o, f, v) ==
    [x \in DOMAIN o \cup {f} |-> IF x = f THEN v ELSE o[x]]

\* A content-type header: whether it is there, whether it names markup
\* (xml or html), and the charset it declares.
ContentType(present, markup, charset) ==
    [present |-> present, markup |-> markup, charset |-> charset]
NoContentType == ContentType(FALSE, FALSE, "null")
TextHtml == ContentType(TRUE, TRUE, "null")

\* A response body: the charset its text declares, whether it is empty,
\* whether it is a Buffer (as the transport returns it: responseType is
\* "buffer") or a string, whether JSON.parse accepts its text and whether
\* load accepts it.
Content(declared, empty, buffer, json, loads) ==
    [declared |-> declared, empty |-> empty, buffer |-> buffer,
     json |-> json, loads |-> loads]

\* A response: its body and its content-type header.
ResponseOf(body, ct) == [body |-> body, headers |-> [contentType |-> ct]]

\* A response of the transport whose body is markup and no JSON.
Response(declared, empty, ct) ==
    ResponseOf(Content(declared, empty, TRUE, FALSE, TRUE), ct)
NoResponse == Response("null", TRUE, NoContentType)
PlainResponse == Response("null", FALSE, TextHtml)

\* What the completion callback is given of a response: the response as
\* it came, the charset found, the encoding iconv.decode was called with
\* ("raw": not called), whether JSON.parse was tried on it, whether a
\* document was built, what response.body is by then ("buffer", "string",
\* "text": decoded, "json": parsed) and the failures that were logged.
Result(response, charset, decodedAs, json, document, body, logged) ==
    [response |-> response, charset |-> charset, decodedAs |-> decodedAs,
     json |-> json, document |-> document, body |-> body, logged |-> logged]
NoResult == Result(NoResponse, "null", "raw", FALSE, FALSE, "buffer", {})

\* How the last call of the transport settled: with a response or not.
Settled(ok, response) == [ok |-> ok, response |-> response]
NotSettled == Settled(FALSE, NoResponse)

Priorities == {1, 3, 5}
Charsets == {"null", "iso-8859-1"}
Encodings == {"undefined", "null", "gbk"}
UserAgents == <<"ua0", "ua1">>
Proxies == <<"p0", "p1", "p2">>
RateLimiterIds == {Undefined, 1}
RateLimits == {0, MaxRate}
PriorityScenario == <<5, 1, 3>>

VARIABLES
    args,       \* the options object given to the constructor
    options,    \* Crawler.options
    limiters,   \* Cluster: key -> RateLimiter
    desc,       \* the request options objects handed to _schedule, by number
    pc,         \* where each descriptor is
    doneCalled, \* per descriptor: its limiter's done has run
    hist,       \* per descriptor: what has been observed of it
    dispatchLog,\* the dispatches of all limiters, in order
    drains,     \* "drain" notifications emitted
    empties,    \* transitions of the cluster from non-empty to empty
    inputs,     \* the elements handed to add(), and what became of each
    calls,      \* the values add() was called with, batch by batch
    changes,    \* calls of setLimiter that were counted
    UAIndex,    \* Crawler._UAIndex
    proxyIndex, \* Crawler._proxyIndex
    rotationLog \* the user agents and proxies selected, in order

vars == <<args, options, limiters, desc, pc, doneCalled, hist, dispatchLog,
          drains, empties, inputs, calls, changes, UAIndex, proxyIndex,
          rotationLog>>

\* The mutable program state as one value, for the operators below.
State ==
    [limiters |-> limiters, desc |-> desc, pc |-> pc, doneCalled |-> doneCalled,
     hist |-> hist, dispatchLog |-> dispatchLog, drains |-> drains,
     empties |-> empties, inputs |-> inputs, calls |-> calls,
     changes |-> changes,
     UAIndex |-> UAIndex,
     proxyIndex |-> proxyIndex, rotationLog |-> rotationLog]

\* The state s becomes the next state; s is evaluated once.
Commit(s) ==
    \E v \in {s} :
        /\ limiters' = v.limiters
        /\ desc' = v.desc
        /\ pc' = v.pc
        /\ doneCalled' = v.doneCalled
        /\ hist' = v.hist
        /\ dispatchLog' = v.dispatchLog
        /\ drains' = v.drains
        /\ empties' = v.empties
        /\ inputs' = v.inputs
        /\ calls' = v.calls
        /\ changes' = v.changes
        /\ UAIndex' = v.UAIndex
        /\ proxyIndex' = v.proxyIndex
        /\ rotationLog' = v.rotationLog
        /\ UNCHANGED <<args, options>>

Min(a, b) == IF a < b THEN a ELSE b
Max(a, b) == IF a > b THEN a ELSE b

\* ------------------------------------------------ Cluster and RateLimiter
\* logger.ts imports both from ./rateLimiter/index.js, which src/ does not
\* hold; this section follows spec.md sections 3, 4.1 and 4.2.

\* Variant: the limiters' maximum is taken from the wrong option.
ClusterOptionsWrongCap(o) ==
    [maxConnections |-> priorityLevels, rateLimit |-> o.rateLimit,
     homogeneous |-> o.homogeneous]

\* Variant: the sharing policy is not passed on.
ClusterOptionsPerKey(o) ==
    [maxConnections |-> o.maxConnections, rateLimit |-> o.rateLimit,
     homogeneous |-> FALSE]

\* What the constructor passes to new Cluster(...).
ClusterOptions(o) ==
    [maxConnections |-> o.maxConnections, rateLimit |-> o.rateLimit,
     homogeneous |-> o.homogeneous]

\* A limiter as the cluster creates it: nothing active, nothing queued, no
\* dispatch yet; a nonzero interval forces the maximum to 1.
NewRateLimiter(c) ==
    [maxConnections |-> IF c.rateLimit > 0 THEN 1 ELSE c.maxConnections,
     rateLimit |-> c.rateLimit, running |-> 0, queue |-> <<>>,
     elapsed |-> c.rateLimit, started |-> FALSE]

\* Variant: every rateLimiterId resolves to the default key.
LimiterKeyShared(c, id) == DefaultKey

\* The key a rateLimiterId resolves to.
LimiterKey(c, id) ==
    IF c.homogeneous \/ id = Undefined THEN DefaultKey ELSE id

\* Cluster.getRateLimiter: check, then create.
GetRateLimiter(lims, c, id) ==
    LET k == LimiterKey(c, id)
    IN  IF k \in DOMAIN lims THEN lims
        ELSE [x \in DOMAIN lims \cup {k} |->
                IF x \in DOMAIN lims THEN lims[x] ELSE NewRateLimiter(c)]

KeyOf(s, d) == LimiterKey(ClusterOptions(options), s.desc[d].rateLimiterId)

\* A priority outside the configured levels is clamped to the nearest level.
Clamp(p) == Max(0, Min(p, priorityLevels - 1))

\* RateLimiter.empty and Cluster.empty.
Empty(lim) == lim.running = 0 /\ lim.queue = <<>>
ClusterEmpty(lims) == \A k \in DOMAIN lims : Empty(lims[k])

\* Variant: a free slot is enough, the interval is not looked at.
GateAlwaysOpen(lim) == TRUE

\* Interval gating: enough time since the last dispatch start.
GateOpen(lim) == lim.rateLimit = 0 \/ lim.elapsed >= lim.rateLimit

CanDispatch(lim) ==
    lim.running < lim.maxConnections /\ lim.queue # <<>> /\ GateOpen(lim)

\* Variant: the comparison of priorities is the wrong way round.
NextIndexHighestFirst(q) ==
    CHOOSE i \in 1..Len(q) :
        \A j \in 1..Len(q) :
            \/ q[j].priority < q[i].priority
            \/ q[j].priority = q[i].priority /\ j >= i

\* The queue position dispatch pops: lowest priority number, then arrival.
NextIndex(q) ==
    CHOOSE i \in 1..Len(q) :
        \A j \in 1..Len(q) :
            \/ q[j].priority > q[i].priority
            \/ q[j].priority = q[i].priority /\ j >= i

Remove(q, i) == SubSeq(q, 1, i - 1) \o SubSeq(q, i + 1, Len(q))

\* One dispatch: a slot is taken, the entry leaves the queue, the dispatch
\* start is recorded, and the entry's task is due to run.
Dispatch(s, k) ==
    LET lim == s.limiters[k]
        i == NextIndex(lim.queue)
        d == lim.queue[i].task
    IN  [s EXCEPT
            !.limiters[k] = [lim EXCEPT !.running = @ + 1,
                                        !.queue = Remove(@, i),
                                        !.elapsed = 0,
                                        !.started = TRUE],
            !.pc[d] = "granted",
            !.hist[d].trace = Append(@, "grant"),
            !.dispatchLog = Append(@,
                [task |-> d, key |-> k, first |-> ~lim.started,
                 gap |-> lim.elapsed,
                 pending |-> {lim.queue[j].task : j \in 1..Len(lim.queue)}])]

TryDispatch(s, k) == IF CanDispatch(s.limiters[k]) THEN Dispatch(s, k) ELSE s

\* RateLimiter.submit(priority, task).
Submit(s, k, p, d) ==
    TryDispatch([s EXCEPT !.limiters[k].queue =
                     Append(@, [priority |-> Clamp(p), task |-> d])], k)

\* Variant: done tries the next dispatch and gives no slot back.
DoneKeepsSlot(s, k, d) ==
    IF s.doneCalled[d] THEN s
    ELSE TryDispatch([s EXCEPT !.doneCalled[d] = TRUE], k)

\* Variant: every call gives a slot back.
DoneUnguarded(s, k, d) ==
    LET s1 == [s EXCEPT !.doneCalled[d] = TRUE, !.limiters[k].running = @ - 1]
        s2 == [s1 EXCEPT !.empties =
                   IF ClusterEmpty(s1.limiters) THEN @ + 1 ELSE @]
    IN  TryDispatch(s2, k)

\* The done callback a task receives: the first call gives the slot back
\* and tries the next dispatch; a later call on the same grant does nothing.
Done(s, k, d) ==
    IF s.doneCalled[d] THEN s
    ELSE LET s1 == [s EXCEPT !.doneCalled[d] = TRUE,
                             !.limiters[k].running = @ - 1]
             s2 == [s1 EXCEPT !.empties =
                        IF ClusterEmpty(s1.limiters) THEN @ + 1 ELSE @]
         IN  TryDispatch(s2, k)

\* RateLimiter.setRateLimit: the interval is replaced, and a nonzero one
\* forces the maximum to 1; active count and queue are not touched.
\* sinceLast is Date.now() - lastStart where the limiter had stopped
\* counting it; a limiter that has not dispatched yet has nothing to wait
\* for.
SetRateLimit(lim, value, sinceLast) ==
    [lim EXCEPT
        !.rateLimit = value,
        !.maxConnections = IF value > 0 THEN 1 ELSE @,
        !.elapsed = IF ~lim.started THEN value
                    ELSE IF lim.elapsed < lim.rateLimit
                    THEN Min(lim.elapsed, value)
                    ELSE Min(Max(lim.elapsed, sinceLast), value)]

\* ---------------------------------------------------------------- Crawler

\* constructor: options = defaults overlaid by the argument; a positive
\* rateLimit forces maxConnections to 1.
Constructor(o) ==
    IF o.rateLimit > 0 THEN [o EXCEPT !.maxConnections = 1] ELSE o

\* Variant: every "_release" is answered by "drain".
OnReleaseAlways(s) == [s EXCEPT !.drains = @ + 1]

\* The "_release" listener installed by the constructor.
OnRelease(s) ==
    IF ClusterEmpty(s.limiters) THEN [s EXCEPT !.drains = @ + 1] ELSE s

\* Variant: "_release" is emitted before done is called.
ReleaseEmitFirst(s, d) ==
    LET s1 == OnRelease([s EXCEPT !.hist[d].released = @ + 1,
                                  !.hist[d].trace = Append(@, "_release")])
    IN  Done([s1 EXCEPT !.hist[d].trace = Append(@, "done")], KeyOf(s, d), d)

\* options.release = () => { done(); this.emit("_release"); }
Release(s, d) ==
    LET s1 == Done([s EXCEPT !.hist[d].trace = Append(@, "done")],
                   KeyOf(s, d), d)
    IN  OnRelease([s1 EXCEPT !.hist[d].released = @ + 1,
                             !.hist[d].trace = Append(@, "_release")])

\* options.callback(error, response, options.release), where _schedule
\* has set options.callback = options.callback || options.release; with
\* neither, the error is thrown or the response returned, which settles
\* the promise of send().
Callback(s, d, error, response) ==
    LET s1 == [s EXCEPT !.hist[d].callbacks = @ + 1, !.hist[d].error = error,
                        !.hist[d].result = response,
                        !.hist[d].trace = Append(@, "callback")]
    IN  IF s.desc[d].callback
        THEN [s1 EXCEPT !.pc[d] = "callback"]
        ELSE IF s.desc[d].release
        THEN Release([s1 EXCEPT !.pc[d] = "finished"], d)
        ELSE [s EXCEPT !.pc[d] = IF error THEN "rejected" ELSE "resolved",
                       !.hist[d].error = error, !.hist[d].result = response]

\* getCharset(headers): the charset the content-type header declares.
GetCharset(headers) ==
    IF headers.contentType.present THEN headers.contentType.charset
    ELSE "null"

\* Variant: the charset the body declares goes before the header's.
CharsetBodyFirst(response) ==
    IF response.body.declared # "null"
    THEN response.body.declared
    ELSE GetCharset(response.headers)

\* response.charset: the header's charset, else the one the body declares.
Charset(response) ==
    IF GetCharset(response.headers) # "null"
    THEN GetCharset(response.headers)
    ELSE response.body.declared

\* options.encoding after _handler: null is left alone, a given encoding
\* is kept, else it is response.charset, else "utf8".
Encoding(encoding, response) ==
    IF encoding = "null" THEN "null"
    ELSE IF encoding # "undefined" THEN encoding
    ELSE IF Charset(response) # "null" THEN Charset(response)
    ELSE "utf8"

\* _detectHtmlOnHeaders(headers).
DetectHtmlOnHeaders(headers) ==
    headers.contentType.present /\ headers.contentType.markup

\* iconv.decode(body, encoding) throws for an encoding it does not know.
Recognized(encoding) == encoding \in {"utf8", "iso-8859-1", "gbk"}

\* response.body after the decoding step: with an encoding of null it is
\* left as it came; else it is made a Buffer and, unless iconv.decode
\* throws, replaced by the decoded text.
Decoded(o, response) ==
    IF o.encoding = "null"
    THEN IF response.body.buffer THEN "buffer" ELSE "string"
    ELSE IF Recognized(Encoding(o.encoding, response)) THEN "text"
    ELSE "buffer"

\* JSON.parse(response.body) returns (the empty text is no JSON).
JsonParses(response) == response.body.json /\ ~response.body.empty

\* response.body after the JSON step: the parsed value, or what it was
\* when JSON.parse throws or isJson is off.
Parsed(o, response) ==
    IF o.isJson /\ JsonParses(response) THEN "json" ELSE Decoded(o, response)

\* load(response.body) is called: jQuery is on, isJson off, the body is
\* not the empty string and the content type names markup.
Loads(o, response) ==
    /\ o.jQuery /\ ~o.isJson
    /\ ~(response.body.empty /\ Decoded(o, response) \in {"text", "string"})
    /\ DetectHtmlOnHeaders(response.headers)

\* The failures the success path catches and logs.
Logged(o, response) ==
    {f \in {"decode", "json", "document"} :
        \/ /\ f = "decode" /\ o.encoding # "null"
           /\ ~Recognized(Encoding(o.encoding, response))
        \/ f = "json" /\ o.isJson /\ ~JsonParses(response)
        \/ f = "document" /\ Loads(o, response) /\ ~response.body.loads}

\* The success path of _handler: charset, decoding, JSON, document.
Normalize(o, response) ==
    Result(response, Charset(response),
           IF o.encoding = "null" THEN "raw"
           ELSE Encoding(o.encoding, response),
           o.isJson,
           Loads(o, response) /\ response.body.loads,
           Parsed(o, response),
           Logged(o, response))

\* Variant: the last retry is not taken (retries > 1).
HandlerOffByOne(s, d, error, response) ==
    IF error
    THEN IF s.desc[d].retries > 1
         THEN [s EXCEPT !.pc[d] = "retry"]
         ELSE Callback(s, d, TRUE, NoResult)
    ELSE Callback([s EXCEPT !.desc[d].encoding = Encoding(@, response)], d,
                  FALSE, Normalize(s.desc[d], response))

\* Variant: an error is final whatever retries remain.
HandlerNoRetry(s, d, error, response) ==
    IF error THEN Callback(s, d, TRUE, NoResult)
    ELSE Callback([s EXCEPT !.desc[d].encoding = Encoding(@, response)], d,
                  FALSE, Normalize(s.desc[d], response))

\* Variant: the slot is given back while the retry is waited for.
HandlerReleaseOnRetry(s, d, error, response) ==
    IF error
    THEN IF s.desc[d].retries > 0
         THEN Release([s EXCEPT !.pc[d] = "retry"], d)
         ELSE Callback(s, d, TRUE, NoResult)
    ELSE Callback([s EXCEPT !.desc[d].encoding = Encoding(@, response)], d,
                  FALSE, Normalize(s.desc[d], response))

\* Variant: a failure to decode fails the request.
HandlerDecodeFatal(s, d, error, response) ==
    IF error \/ "decode" \in Logged(s.desc[d], response)
    THEN IF s.desc[d].retries > 0
         THEN [s EXCEPT !.pc[d] = "retry"]
         ELSE Callback(s, d, TRUE, NoResult)
    ELSE Callback([s EXCEPT !.desc[d].encoding = Encoding(@, response)], d,
                  FALSE, Normalize(s.desc[d], response))

\* _handler(error, options, response): an error is retried while retries
\* are left and else handed to the callback with { options }; a response
\* is normalized and handed to the callback.
Handler(s, d, error, response) ==
    IF error
    THEN IF s.desc[d].retries > 0
         THEN [s EXCEPT !.pc[d] = "retry"]
         ELSE Callback(s, d, TRUE, NoResult)
    ELSE Callback([s EXCEPT !.desc[d].encoding = Encoding(@, response)], d,
                  FALSE, Normalize(s.desc[d], response))

\* request(): "request" is emitted unless skipEventRequest is true, and
\* the transport is called.
Request(s, d) ==
    [s EXCEPT !.pc[d] = "transport", !.hist[d].transport = @ + 1,
              !.hist[d].requests =
                  IF s.desc[d].skipEventRequest THEN @ ELSE @ + 1,
              !.hist[d].trace =
                  IF s.desc[d].skipEventRequest THEN Append(@, "transport")
                  ELSE @ \o <<"request", "transport">>]

\* The encoding _execute leaves in the options.
ForcedEncoding(o) == IF o.forceUTF8 \/ o.isJson THEN "utf8" ELSE o.encoding

\* The user agent of this attempt: with a list, the element at _UAIndex
\* modulo its length, and _UAIndex moves on by one.
RotateUserAgent(s, d) ==
    LET list == s.desc[d].userAgents
        i == s.UAIndex % Len(list)
    IN  IF list = <<>> THEN s
        ELSE [s EXCEPT !.UAIndex = i + 1,
                       !.desc[d].userAgent = list[i + 1],
                       !.rotationLog = Append(@,
                           [list |-> "userAgents", task |-> d, index |-> i,
                            counter |-> s.UAIndex])]

\* The proxy of this attempt: with no proxy set and a list, the element at
\* _proxyIndex modulo its length, and _proxyIndex moves on by one.
RotateProxy(s, d) ==
    LET list == s.desc[d].proxies
        i == s.proxyIndex % Len(list)
    IN  IF s.desc[d].proxy # "" \/ list = <<>> THEN s
        ELSE [s EXCEPT !.proxyIndex = i + 1,
                       !.desc[d].proxy = list[i + 1],
                       !.rotationLog = Append(@,
                           [list |-> "proxies", task |-> d, index |-> i,
                            counter |-> s.proxyIndex])]

\* _execute(options): the encoding is forced, user agent and proxy are
\* chosen, then with a preRequest hook the hook is called and decides;
\* without one the request is made.
Execute(s, d) ==
    LET s1 == [s EXCEPT !.desc[d].encoding = ForcedEncoding(s.desc[d])]
        s2 == RotateProxy(RotateUserAgent(s1, d), d)
    IN  IF s2.desc[d].preRequest
        THEN [s2 EXCEPT !.pc[d] = "hook", !.hist[d].hooks = @ + 1]
        ELSE Request(s2, d)

\* The synthetic response of an inline body.
InlineResponse(o) ==
    ResponseOf(Content(o.htmlDeclares, FALSE, FALSE, o.htmlJson, TRUE),
               TextHtml)

\* The task _schedule submits, run by the limiter with done and its key:
\* options.release is set, then the inline body is handled or the request
\* executed.
Task(s, d) ==
    LET s1 == [s EXCEPT !.desc[d].release = TRUE]
    IN  IF s.desc[d].html
        THEN Handler(s1, d, FALSE, InlineResponse(s.desc[d]))
        ELSE Execute(s1, d)

\* Variant: the task is submitted at the default priority.
ScheduleDefaultPriority(s, o) ==
    LET d == Len(s.desc) + 1
        c == ClusterOptions(options)
        s1 == [s EXCEPT
                 !.desc = Append(@, o),
                 !.pc = Append(@, "queued"),
                 !.doneCalled = Append(@, FALSE),
                 !.hist = Append(@, [retries0 |-> o.retries, transport |-> 0,
                                     hooks |-> 0, hookErrors |-> 0,
                                     callbacks |-> 0, error |-> FALSE,
                                     released |-> 0, scheduled |-> o,
                                     requests |-> 0, result |-> NoResult,
                                     settled |-> NotSettled, via |-> "add",
                                     trace |-> <<"schedule", "submit">>]),
                 !.limiters = GetRateLimiter(@, c, o.rateLimiterId)]
    IN  Submit(s1, LimiterKey(c, o.rateLimiterId), priority, d)

\* _schedule(options): "schedule" is emitted, then the task is submitted to
\* the limiter of options.rateLimiterId at options.priority.
Schedule(s, o) ==
    LET d == Len(s.desc) + 1
        c == ClusterOptions(options)
        s1 == [s EXCEPT
                 !.desc = Append(@, o),
                 !.pc = Append(@, "queued"),
                 !.doneCalled = Append(@, FALSE),
                 !.hist = Append(@, [retries0 |-> o.retries, transport |-> 0,
                                     hooks |-> 0, hookErrors |-> 0,
                                     callbacks |-> 0, error |-> FALSE,
                                     released |-> 0, scheduled |-> o,
                                     requests |-> 0, result |-> NoResult,
                                     settled |-> NotSettled, via |-> "add",
                                     trace |-> <<"schedule", "submit">>]),
                 !.limiters = GetRateLimiter(@, c, o.rateLimiterId)]
    IN  Submit(s1, LimiterKey(c, o.rateLimiterId), o.priority, d)

\* Variant: the limiter's interval is assigned, setRateLimit is not called.
SetLimiterAssign(s, rateLimiterId, property, value, sinceLast) ==
    LET c == ClusterOptions(options)
        k == LimiterKey(c, rateLimiterId)
    IN  IF rateLimiterId = Undefined \/ property # "rateLimit" THEN s
        ELSE [s EXCEPT !.limiters =
                 [GetRateLimiter(@, c, rateLimiterId) EXCEPT
                     ![k].rateLimit = value]]

\* Variant: the limiter is replaced by a new one with the interval.
SetLimiterReplace(s, rateLimiterId, property, value, sinceLast) ==
    LET c == ClusterOptions(options)
        k == LimiterKey(c, rateLimiterId)
    IN  IF rateLimiterId = Undefined \/ property # "rateLimit" THEN s
        ELSE [s EXCEPT !.limiters =
                 [GetRateLimiter(@, c, rateLimiterId) EXCEPT
                     ![k] = NewRateLimiter([c EXCEPT !.rateLimit = value])]]

\* setLimiter(rateLimiterId, property, value): an id that is no number is
\* refused; for "rateLimit" the limiter of the id is looked up and its
\* setRateLimit called; other properties do nothing.
SetLimiter(s, rateLimiterId, property, value, sinceLast) ==
    LET c == ClusterOptions(options)
        k == LimiterKey(c, rateLimiterId)
    IN  IF rateLimiterId = Undefined \/ property # "rateLimit" THEN s
        ELSE [s EXCEPT !.limiters =
                 [GetRateLimiter(@, c, rateLimiterId) EXCEPT
                     ![k] = SetRateLimit(@, value, sinceLast)]]

\* Variant: the defaults are filled in before the retry count is looked at.
SendDefaultsFirst(s, x) ==
    LET d == Len(s.desc) + 1
        o == [SetDefaults(x, crawlerDefaults) EXCEPT
                 !.skipEventRequest =
                     IF "skipEventRequest" \in DOMAIN x THEN @ ELSE TRUE,
                 !.preRequest = FALSE]
    IN  Execute([s EXCEPT
                   !.desc = Append(@, o),
                   !.pc = Append(@, "sent"),
                   !.doneCalled = Append(@, FALSE),
                   !.hist = Append(@, [retries0 |-> o.retries, transport |-> 0,
                                       hooks |-> 0, hookErrors |-> 0,
                                       callbacks |-> 0, error |-> FALSE,
                                       released |-> 0, scheduled |-> x,
                                       requests |-> 0, result |-> NoResult,
                                       settled |-> NotSettled, via |-> "send",
                                       trace |-> <<"send">>])], d)

\* send(options), for options that getValidOptions accepts: a missing
\* retry count becomes 0, the rest is completed by the crawler's options,
\* skipEventRequest is true unless given as a boolean, preRequest is
\* deleted, and _execute is called.
Send(s, x) ==
    LET d == Len(s.desc) + 1
        o1 == IF "retries" \in DOMAIN x THEN x ELSE With(x, "retries", 0)
        o == [SetDefaults(o1, crawlerDefaults) EXCEPT
                 !.skipEventRequest =
                     IF "skipEventRequest" \in DOMAIN x THEN @ ELSE TRUE,
                 !.preRequest = FALSE]
    IN  Execute([s EXCEPT
                   !.desc = Append(@, o),
                   !.pc = Append(@, "sent"),
                   !.doneCalled = Append(@, FALSE),
                   !.hist = Append(@, [retries0 |-> o.retries, transport |-> 0,
                                       hooks |-> 0, hookErrors |-> 0,
                                       callbacks |-> 0, error |-> FALSE,
                                       released |-> 0, scheduled |-> x,
                                       requests |-> 0, result |-> NoResult,
                                       settled |-> NotSettled, via |-> "send",
                                       trace |-> <<"send">>])], d)

\* What the code can tell of a value handed to add(): its getType, whether
\* isValidUrl accepts it, whether JSON.parse accepts it, and whether its
\* prototype is Object.prototype or null.  The JSON strings tried are
\* serialized objects.
InputShapes ==
    {[type |-> "string", url |-> TRUE, json |-> FALSE, plain |-> FALSE],
     [type |-> "string", url |-> FALSE, json |-> TRUE, plain |-> FALSE],
     [type |-> "string", url |-> FALSE, json |-> FALSE, plain |-> FALSE],
     [type |-> "object", url |-> FALSE, json |-> FALSE, plain |-> TRUE],
     [type |-> "object", url |-> FALSE, json |-> FALSE, plain |-> FALSE],
     [type |-> "number", url |-> FALSE, json |-> FALSE, plain |-> FALSE]}

\* Variant: the prototype of an object is not looked at and a string that
\* is no URL is taken as it is.
GetValidOptionsLenient(x) ==
    IF x.type = "string"
    THEN IF x.url THEN "url" ELSE "parsed"
    ELSE IF x.type = "object" THEN "object" ELSE "TypeError"

\* getValidOptions(options): where the options come from, or "TypeError"
\* when it throws.
GetValidOptions(x) ==
    IF x.type = "string"
    THEN IF x.url THEN "url"
         ELSE IF x.json THEN "parsed" ELSE "TypeError"
    ELSE IF x.type = "object" /\ x.plain THEN "object" ELSE "TypeError"

\* What add() notes of one element: the value, how far it got ("raised":
\* the error went to the caller; "warned": logged and skipped; "checking":
\* seen.exists is pending; "seen"; "failed": seen.exists rejected;
\* "scheduled"), how often _schedule was called for it, and its descriptor.
Element(x, o, status) ==
    [input |-> x, options |-> o, status |-> status, scheduled |-> 0,
     desc |-> 0]

\* _schedule called for element i of the inputs.
ScheduleElement(s, i) ==
    Schedule([s EXCEPT !.inputs[i].status = "scheduled",
                       !.inputs[i].scheduled = @ + 1,
                       !.inputs[i].desc = Len(s.desc) + 1],
             s.inputs[i].options)

\* add(options), the body of its forEach for one element x whose options,
\* once valid and completed by setDefaults, are o.
AddElement(s, x, o) ==
    LET i == Len(s.inputs) + 1
    IN  IF GetValidOptions(x) = "TypeError"
        THEN [s EXCEPT !.inputs = Append(@, Element(x, o, "warned"))]
        ELSE IF ~options.skipDuplicates
        THEN ScheduleElement(
                 [s EXCEPT !.inputs = Append(@, Element(x, o, "valid"))], i)
        ELSE [s EXCEPT !.inputs = Append(@, Element(x, o, "checking"))]

RECURSIVE FlattenOnce(_)
RECURSIVE FlattenDeep(_)
RECURSIVE AddAll(_, _, _)

\* An array, as add() may be handed one: getType tells it from a string
\* and from an object.
Array(items) == [type |-> "array", items |-> items]

\* Variant: one level of arrays is flattened, the arrays within stay.
FlattenOnce(q) ==
    IF q = <<>> THEN <<>>
    ELSE (IF Head(q).type = "array" THEN Head(q).items ELSE <<Head(q)>>)
             \o FlattenOnce(Tail(q))

\* flattenDeep(array): the elements that are no arrays, in order, of the
\* array and of the arrays within it, however deep.
FlattenDeep(q) ==
    IF q = <<>> THEN <<>>
    ELSE (IF Head(q).type = "array" THEN FlattenDeep(Head(q).items)
          ELSE <<Head(q)>>) \o FlattenDeep(Tail(q))

\* The forEach of add(): its body for each element in turn.
AddAll(s, q, o) ==
    IF q = <<>> THEN s ELSE AddAll(AddElement(s, Head(q), o), Tail(q), o)

\* add(options): what is no array is made an array of one, the array is
\* flattened, and each element is validated and scheduled or checked.
AddBatch(s, input, o) ==
    LET optionsArray == IF input.type = "array" THEN input.items ELSE <<input>>
    IN  AddAll(s, FlattenDeep(optionsArray), o)

\* The manners of nesting the elements q into one value: the element
\* itself, a flat array, an array whose tail is an array, and an array
\* that holds all but the last element two arrays deep.
Nestings == {"single", "flat", "tail", "deep"}
Nestable(p, q) ==
    /\ p = "single" => Len(q) = 1
    /\ p = "tail" => Len(q) >= 2
Nest(p, q) ==
    CASE p = "single" -> q[1]
      [] p = "flat" -> Array(q)
      [] p = "tail" -> Array(<<q[1], Array(Tail(q))>>)
      [] p = "deep" ->
            Array(<<Array(<<Array(SubSeq(q, 1, Len(q) - 1))>>), q[Len(q)]>>)

\* The promise of seen.exists settles: resolved with true ("seen") or false
\* ("unseen"), or rejected; .then schedules the unseen, .catch logs.
SeenSettled(s, i, rst) ==
    IF rst = "rejected" THEN [s EXCEPT !.inputs[i].status = "failed"]
    ELSE IF rst = "seen" THEN [s EXCEPT !.inputs[i].status = "seen"]
    ELSE ScheduleElement(s, i)

\* ---------------------------------------------------------------- actions

Init ==
    /\ args \in [maxConnections : 1..MaxConnections, rateLimit : RateLimits,
                 homogeneous : BOOLEAN, skipDuplicates : BOOLEAN]
    /\ options = Constructor(args)
    /\ limiters = <<>>
    /\ desc = <<>>
    /\ pc = <<>>
    /\ doneCalled = <<>>
    /\ hist = <<>>
    /\ dispatchLog = <<>>
    /\ drains = 0
    /\ empties = 0
    /\ inputs = <<>>
    /\ calls = <<>>
    /\ changes = 0
    /\ UAIndex = 0
    /\ proxyIndex = 0
    /\ rotationLog = <<>>

\* add(options) with skipDuplicates off: each valid element is scheduled.
\* At most n requests, their options drawn from Os.
Add(n, Os) ==
    /\ Len(desc) < n
    /\ \E o \in Os : Commit(Schedule(State, o))

\* add(x): one element is validated and, with skipDuplicates off, scheduled;
\* with skipDuplicates on, seen.exists is asked.  At most n elements.
AddInput(n, Xs, Os) ==
    /\ Len(inputs) < n
    /\ \E x \in Xs, o \in Os : Commit(AddElement(State, x, o))

\* send(x) or direct(x), which is send: at most n descriptors in all.  The
\* value is of shape X and, once an object, holds the options x.
SendCall(n, Xs, Os) ==
    /\ Len(desc) < n
    /\ \E X \in Xs, x \in Os :
         GetValidOptions(X) # "TypeError" /\ Commit(Send(State, x))

\* add(input), the input being the elements q nested in the manner p; at
\* most n elements in all.
AddCall(n, Xs, Os) ==
    /\ Len(inputs) < n
    /\ \E m \in 1..(n - Len(inputs)), p \in Nestings, o \in Os :
         \E q \in [1..m -> Xs] :
            /\ Nestable(p, q)
            /\ Commit(AddBatch([State EXCEPT !.calls = Append(@,
                                     [input |-> Nest(p, q), elements |-> q,
                                      first |-> Len(inputs) + 1])],
                               Nest(p, q), o))

\* seen.exists answers for an element.
SeenSettle ==
    \E i \in DOMAIN inputs, rst \in {"seen", "unseen", "rejected"} :
        inputs[i].status = "checking" /\ Commit(SeenSettled(State, i, rst))

\* The limiter runs a granted task.
RunTask ==
    \E d \in DOMAIN pc : pc[d] = "granted" /\ Commit(Task(State, d))

\* The pre-request hook calls its continuation, with or without an error.
HookDone ==
    \E d \in DOMAIN pc, err \in BOOLEAN :
        /\ pc[d] = "hook"
        /\ Commit(IF err
                  THEN Handler([State EXCEPT !.hist[d].hookErrors = @ + 1],
                               d, TRUE, NoResponse)
                  ELSE Request(State, d))

\* The pre-request hook throws: _execute logs and rethrows.
HookThrow ==
    \E d \in DOMAIN pc :
        pc[d] = "hook" /\ Commit([State EXCEPT !.pc[d] = "thrown"])

\* The transport call settles, with a response or an error.
TransportDone(Oks, Rs) ==
    \E d \in DOMAIN pc, ok \in Oks, response \in Rs :
        /\ pc[d] = "transport"
        /\ Commit(Handler([State EXCEPT
                               !.hist[d].trace = Append(@, "settled"),
                               !.hist[d].settled =
                                   IF ok THEN Settled(TRUE, response)
                                   ELSE NotSettled],
                          d, ~ok, IF ok THEN response ELSE NoResponse))

\* Variant: the retry timer runs _execute again and leaves retries alone.
RetryFireNoDecrement ==
    \E d \in DOMAIN pc :
        /\ pc[d] = "retry"
        /\ Commit(Execute(State, d))

\* The retry timer fires: retries is decremented and _execute runs again.
RetryFire ==
    \E d \in DOMAIN pc :
        /\ pc[d] = "retry"
        /\ Commit(Execute([State EXCEPT !.desc[d].retries = @ - 1], d))

\* The caller's completion callback invokes the release it was given, at
\* most n times.
UserRelease(n) ==
    \E d \in DOMAIN pc :
        /\ desc[d].callback /\ desc[d].release
        /\ pc[d] \in {"callback", "finished"}
        /\ hist[d].released < n
        /\ Commit(Release([State EXCEPT !.pc[d] = "finished"], d))

\* A limiter's interval timer fires and the deferred dispatch is tried,
\* under the interval the limiter has by then.
TimerFire ==
    \E k \in DOMAIN limiters :
        /\ CanDispatch(limiters[k])
        /\ Commit(TryDispatch(State, k))

\* One clock tick, seen by every limiter that is waiting out its interval.
Tick ==
    /\ \E k \in DOMAIN limiters : limiters[k].elapsed < limiters[k].rateLimit
    /\ Commit([State EXCEPT !.limiters =
                 [k \in DOMAIN limiters |->
                    [limiters[k] EXCEPT !.elapsed =
                        IF @ < limiters[k].rateLimit THEN @ + 1 ELSE @]]])

\* The caller calls setLimiter.
SetLimiterCall ==
    \E id \in RateLimiterIds \cup {DefaultKey},
       property \in {"rateLimit", "maxConnections"},
       value \in RateLimits, sinceLast \in 0..MaxRate :
        /\ sinceLast <= value
        /\ Commit(SetLimiter(State, id, property, value, sinceLast))

\* The caller changes the interval of the default limiter, at most n times.
SetRateLimitCall(n) ==
    \E value \in RateLimits, sinceLast \in 0..MaxRate :
        /\ changes < n
        /\ sinceLast <= value
        /\ Commit([SetLimiter(State, DefaultKey, "rateLimit", value,
                              sinceLast) EXCEPT !.changes = @ + 1])

\* ---------------------------------------------------------- specifications

\* The request options the runs draw from.  An inline body makes retries
\* and the pre-request hook irrelevant (_execute is not reached).
RequestOptions(P, K, R, H, C, Q) ==
    {SetDefaults(o, requestDefaults) :
        o \in {r \in [priority : P, rateLimiterId : K, retries : R, html : H,
                      callback : C, preRequest : Q] :
                    r.html => r.retries = 0 /\ ~r.preRequest}}

\* add() of the scenario's requests, in order, all else being default.
AddInOrder ==
    /\ Len(desc) < Len(PriorityScenario)
    /\ Commit(Schedule(State, SetDefaults(
           [priority |-> PriorityScenario[Len(desc) + 1],
            rateLimiterId |-> Undefined, retries |-> 0, html |-> FALSE,
            callback |-> TRUE, preRequest |-> FALSE], requestDefaults)))

\* One limiter: requests that differ in priority, fetched once, whose
\* completion callback releases once.
InitLimiter == Init /\ ~args.homogeneous /\ ~args.skipDuplicates

Next ==
    \/ Add(NumDesc, RequestOptions(Priorities, {Undefined}, {0}, {FALSE},
                                   {TRUE}, {FALSE}))
    \/ RunTask
    \/ TransportDone(BOOLEAN, {PlainResponse})
    \/ UserRelease(1)
    \/ TimerFire
    \/ Tick

Spec == InitLimiter /\ [][Next]_vars

\* The cluster, without interval: requests of one priority that differ in
\* limiter key, fetched once, with or without a completion callback, whose
\* callback may release repeatedly.
InitCluster == Init /\ args.rateLimit = 0 /\ ~args.skipDuplicates

NextCluster ==
    \/ Add(NumDesc, RequestOptions({priority}, RateLimiterIds, {0}, {FALSE},
                                   BOOLEAN, {FALSE}))
    \/ RunTask
    \/ TransportDone({TRUE}, {PlainResponse})
    \/ UserRelease(MaxRelease)

SpecCluster == InitCluster /\ [][NextCluster]_vars

\* The pipeline: requests of one priority on the default limiter that
\* differ in retries, inline body, completion callback and pre-request hook.
InitPipeline ==
    Init /\ ~args.homogeneous /\ args.rateLimit = 0 /\ ~args.skipDuplicates

NextPipeline ==
    \/ Add(NumPipeline, RequestOptions({priority}, {Undefined}, 0..MaxRetries,
                                       BOOLEAN, BOOLEAN, BOOLEAN))
    \/ RunTask
    \/ HookDone
    \/ HookThrow
    \/ TransportDone(BOOLEAN, {PlainResponse})
    \/ RetryFire
    \/ UserRelease(1)

SpecPipeline == InitPipeline /\ [][NextPipeline]_vars

\* The priority scenario on a limiter with one slot.
InitPriority ==
    Init /\ args.maxConnections = 1 /\ ~args.homogeneous /\ ~args.skipDuplicates

NextPriority ==
    \/ AddInOrder
    \/ RunTask
    \/ TransportDone(BOOLEAN, {PlainResponse})
    \/ UserRelease(1)
    \/ TimerFire
    \/ Tick

SpecPriority == InitPriority /\ [][NextPriority]_vars

\* Admission: values of every shape handed to add(), with and without
\* skipDuplicates; what is scheduled is a default request, fetched once.
InitAdmission == Init /\ ~args.homogeneous /\ args.rateLimit = 0

NextAdmission ==
    \/ AddInput(NumInputs, InputShapes,
                RequestOptions({priority}, {Undefined}, {0}, {FALSE}, {FALSE},
                               {FALSE}))
    \/ SeenSettle
    \/ RunTask
    \/ TransportDone({TRUE}, {PlainResponse})

SpecAdmission == InitAdmission /\ [][NextAdmission]_vars

\* Retries under an interval: requests with and without retries on one
\* limiter, with and without interval, fetched until the transport answers.
InitRetry == Init /\ ~args.homogeneous /\ ~args.skipDuplicates

NextRetry ==
    \/ Add(NumRetry, RequestOptions({priority}, {Undefined}, {0, MaxRetries},
                                    {FALSE}, {FALSE}, {FALSE}))
    \/ RunTask
    \/ TransportDone(BOOLEAN, {PlainResponse})
    \/ RetryFire
    \/ TimerFire
    \/ Tick

SpecRetry == InitRetry /\ [][NextRetry]_vars

\* Rotation: requests that all carry the same list of user agents and the
\* same list of proxies, with or without a retry, fetched concurrently.
RotationOptions ==
    {[o EXCEPT !.userAgents = UserAgents, !.proxies = Proxies] :
        o \in RequestOptions({priority}, {Undefined}, {0, 1}, {FALSE},
                             {FALSE}, {FALSE})}

InitRotation == InitPipeline

NextRotation ==
    \/ Add(NumRotation, RotationOptions)
    \/ RunTask
    \/ TransportDone(BOOLEAN, {PlainResponse})
    \/ RetryFire

SpecRotation == InitRotation /\ [][NextRotation]_vars

\* Switching the interval: setLimiter is called while requests on two keys
\* are queued and active.
InitSwitch == Init /\ ~args.homogeneous /\ ~args.skipDuplicates

NextSwitch ==
    \/ Add(NumSwitch, RequestOptions({priority}, RateLimiterIds, {0}, {FALSE},
                                     {FALSE}, {FALSE}))
    \/ RunTask
    \/ TransportDone({TRUE}, {PlainResponse})
    \/ SetLimiterCall
    \/ TimerFire
    \/ Tick

SpecSwitch == InitSwitch /\ [][NextSwitch]_vars

\* Order of events: requests fetched with or without a retry, the
\* "request" notification suppressed or not, with or without a completion
\* callback, which releases once.
OrderOptions ==
    {[o EXCEPT !.skipEventRequest = q] :
        o \in RequestOptions({priority}, {Undefined}, {0, 1}, {FALSE}, BOOLEAN,
                             {FALSE}),
        q \in BOOLEAN}

InitOrder == InitPipeline

NextOrder ==
    \/ Add(NumRetry, OrderOptions)
    \/ RunTask
    \/ TransportDone(BOOLEAN, {PlainResponse})
    \/ RetryFire
    \/ UserRelease(1)

SpecOrder == InitOrder /\ [][NextOrder]_vars

\* Bodies: requests with an inline body or fetched, a list of user agents,
\* and every combination of forceUTF8, isJson, jQuery, a given encoding and
\* a charset declared by the inline body; responses with every kind of
\* content type, with or without a charset declared in the body.
BodyOptions ==
    {[o EXCEPT !.forceUTF8 = f[1], !.isJson = f[2], !.jQuery = f[3],
               !.encoding = e, !.htmlDeclares = c, !.userAgents = UserAgents] :
        o \in RequestOptions({priority}, {Undefined}, {0}, BOOLEAN, {FALSE},
                             {FALSE}),
        f \in BOOLEAN \X BOOLEAN \X BOOLEAN, e \in Encodings,
        c \in Charsets}

Responses ==
    {Response(c, empty, ct) :
        c \in Charsets, empty \in BOOLEAN,
        ct \in {NoContentType, TextHtml, ContentType(TRUE, TRUE, "gbk"),
                ContentType(TRUE, FALSE, "gbk")}}

InitBody == InitPipeline /\ args.maxConnections = 1

NextBody ==
    \/ Add(NumPipeline, {o \in BodyOptions : o.html \/ o.htmlDeclares = "null"})
    \/ RunTask
    \/ TransportDone({TRUE}, Responses)

SpecBody == InitBody /\ [][NextBody]_vars

\* Completion: requests with an inline body or fetched, with or without
\* retries and a completion callback, on a limiter without interval; the
\* limiter runs what it grants, every call of the transport settles, the
\* retry timer fires and a completion callback releases.
InitCompletion == InitPipeline /\ args.maxConnections \in {1, MaxConnections}

NextCompletion ==
    \/ Add(NumPipeline, RequestOptions({priority}, {Undefined}, 0..MaxRetries,
                                       BOOLEAN, BOOLEAN, {FALSE}))
    \/ RunTask
    \/ TransportDone(BOOLEAN, {PlainResponse})
    \/ RetryFire
    \/ UserRelease(1)

SpecCompletion ==
    /\ InitCompletion /\ [][NextCompletion]_vars
    /\ WF_vars(RunTask)
    /\ WF_vars(TransportDone(BOOLEAN, {PlainResponse}))
    /\ WF_vars(RetryFire)
    /\ WF_vars(UserRelease(1))

\* send() next to add(): requests scheduled on a limiter with one or more
\* slots, and requests sent with or without a retry count, a completion
\* callback, a pre-request hook and a setting of skipEventRequest.
SendOptions ==
    LET base == {[callback |-> c, preRequest |-> q] :
                    c \in BOOLEAN, q \in BOOLEAN}
    IN  base \cup {With(o, "retries", 1) : o \in base}
             \cup {With(o, "skipEventRequest", FALSE) : o \in base}

InitSend == InitPipeline /\ args.maxConnections \in {1, MaxConnections}

NextSend ==
    \/ Add(NumSend, RequestOptions({priority}, {Undefined}, {0}, {FALSE},
                                   {TRUE}, {FALSE}))
    \/ SendCall(NumSend, {x \in InputShapes : x.type = "object"}, SendOptions)
    \/ RunTask
    \/ TransportDone(BOOLEAN, {PlainResponse})
    \/ RetryFire
    \/ UserRelease(1)

SpecSend == InitSend /\ [][NextSend]_vars

\* Batches: add() is handed nested arrays of valid and invalid elements,
\* with and without skipDuplicates; what is scheduled is a default
\* request, followed up to its place in the limiter.
BatchShapes ==
    {x \in InputShapes :
        \/ x.type = "string" /\ ~x.json
        \/ x.type = "object" /\ x.plain}

InitBatch == InitAdmission /\ args.maxConnections = 1

NextBatch ==
    \/ AddCall(NumInputs, BatchShapes,
               RequestOptions({priority}, {Undefined}, {0}, {FALSE}, {FALSE},
                              {FALSE}))
    \/ SeenSettle

SpecBatch == InitBatch /\ [][NextBatch]_vars

\* Progress: a finite number of requests on one limiter, with or without
\* interval, whose interval is changed a finite number of times; every
\* task the limiter dispatches is run, its transport call settles and, as
\* it has no completion callback, done is called; the clock advances and
\* the limiter's timer fires.
InitProgress == InitLimiter /\ args.maxConnections \in {1, MaxConnections}

NextProgress ==
    \/ Add(NumProgress, RequestOptions({priority}, {Undefined}, {0}, {FALSE},
                                       {FALSE}, {FALSE}))
    \/ RunTask
    \/ TransportDone({TRUE}, {PlainResponse})
    \/ SetRateLimitCall(NumChange)
    \/ TimerFire
    \/ Tick

SpecProgress ==
    /\ InitProgress /\ [][NextProgress]_vars
    /\ WF_vars(RunTask)
    /\ WF_vars(TransportDone({TRUE}, {PlainResponse}))
    /\ WF_vars(TimerFire)
    /\ WF_vars(Tick)

\* Failures of normalization: requests with or without a retry, with an
\* inline body or fetched, that ask for JSON or a document or neither,
\* with no encoding, an encoding of null or one iconv does not know;
\* responses whose body is or is not JSON, is or is not accepted by load,
\* is or is not empty, and may declare a charset iconv does not know.
DecodeOptions ==
    {[o EXCEPT !.isJson = f[1], !.jQuery = f[2], !.htmlJson = f[3] /\ o.html,
               !.encoding = e] :
        o \in RequestOptions({priority}, {Undefined}, {0, 1}, BOOLEAN, {TRUE},
                             {FALSE}),
        f \in BOOLEAN \X BOOLEAN \X BOOLEAN,
        e \in {"undefined", "null", "x-user"}}

DecodeResponses ==
    {ResponseOf(Content(c, empty, TRUE, json, loads), ct) :
        c \in {"null", "x-user"}, empty \in BOOLEAN, json \in BOOLEAN,
        loads \in BOOLEAN, ct \in {NoContentType, TextHtml}}

InitDecode == InitBody

NextDecode ==
    \/ Add(NumPipeline, DecodeOptions)
    \/ RunTask
    \/ TransportDone(BOOLEAN, DecodeResponses)
    \/ RetryFire
    \/ UserRelease(1)

SpecDecode == InitDecode /\ [][NextDecode]_vars

\* ------------------------------------------------------------ properties

Added == DOMAIN pc

\* The descriptors a limiter has dispatched whose done has not been called.
ActiveTasks(k) ==
    {d \in Added : pc[d] # "queued" /\ ~doneCalled[d] /\ KeyOf(State, d) = k}

\* The descriptors a limiter has dispatched that have not invoked release.
Unreleased(k) ==
    {d \in Added :
        pc[d] # "queued" /\ hist[d].released = 0 /\ KeyOf(State, d) = k}

LogOf(k) == {i \in 1..Len(dispatchLog) : dispatchLog[i].key = k}

\* C1: in every reachable state of a limiter with concurrency cap C, the
\* number of dispatched tasks that have not yet called done is at most C,
\* and it is the limiter's active count.
C1_ActiveAtMostCap ==
    \A k \in DOMAIN limiters :
        /\ Cardinality(ActiveTasks(k)) <= args.maxConnections
        /\ limiters[k].running = Cardinality(ActiveTasks(k))

\* C1 witness: a limiter with cap 2 is full and holds a third task back.
C1_Witness ==
    \E k \in DOMAIN limiters :
        /\ args.maxConnections = 2
        /\ Cardinality(ActiveTasks(k)) = 2
        /\ limiters[k].queue # <<>>

\* C2: on a limiter configured with a minimum interval R > 0, every
\* dispatch but the first starts at least R after the dispatch start before
\* it, and at most one task is active, whatever maxConnections was given.
C2_IntervalGated ==
    args.rateLimit > 0 =>
        \A k \in DOMAIN limiters :
            /\ Cardinality(ActiveTasks(k)) <= 1
            /\ \A i \in LogOf(k) :
                 ~dispatchLog[i].first =>
                     dispatchLog[i].gap >= args.rateLimit

\* C2 witness: maxConnections 2 and an interval; two dispatches have started
\* and a third task waits for the interval although the slot is free.
C2_Witness ==
    /\ args.rateLimit > 0
    /\ args.maxConnections > 1
    /\ Len(dispatchLog) >= 2
    /\ \E k \in DOMAIN limiters :
         /\ limiters[k].running = 0
         /\ limiters[k].queue # <<>>
         /\ limiters[k].elapsed < limiters[k].rateLimit

\* C3: every dispatch takes, among the entries queued at that moment, one
\* with the lowest priority number, and among those the earliest submitted.
C3_PriorityThenArrival ==
    \A i \in 1..Len(dispatchLog) :
        LET e == dispatchLog[i]
        IN  /\ e.task \in e.pending
            /\ \A o \in e.pending :
                 \/ Clamp(desc[o].priority) > Clamp(desc[e.task].priority)
                 \/ /\ Clamp(desc[o].priority) = Clamp(desc[e.task].priority)
                    /\ o >= e.task

\* C3 witness: two entries of different priority were queued and the
\* dispatch took the one submitted later, its priority number being lower.
C3_Witness ==
    \E i \in 1..Len(dispatchLog) :
        \E o \in dispatchLog[i].pending :
            /\ o < dispatchLog[i].task
            /\ desc[o].priority > desc[dispatchLog[i].task].priority

\* The priorities of the dispatched tasks, in dispatch order.
DispatchedPriorities ==
    [i \in 1..Len(dispatchLog) |-> desc[dispatchLog[i].task].priority]

\* C4, as claimed: priorities 5, 1, 3 submitted in that order to an idle
\* limiter with cap 1 are dispatched in the order 1, 3, 5.
C4_Original ==
    Len(dispatchLog) = 3 => DispatchedPriorities = <<1, 3, 5>>

\* C4, amended: the first submission finds the slot free and is dispatched
\* at once; the dispatch order is 5, 1, 3.
C4_DispatchOrder ==
    /\ Len(desc) >= 1 => Len(dispatchLog) >= 1 /\ dispatchLog[1].task = 1
    /\ Len(dispatchLog) = 3 => DispatchedPriorities = <<5, 1, 3>>

\* C4 witness: all three were dispatched, and priorities 1 and 3 were both
\* queued when the second dispatch chose.
C4_Witness ==
    /\ Len(dispatchLog) = 3
    /\ dispatchLog[2].pending = {2, 3}

\* C5: under the shared (homogeneous) policy all keys are governed by one
\* limiter: the active descriptors of all keys together are at most its cap.
C5_SharedBudget ==
    args.homogeneous =>
        /\ DOMAIN limiters \subseteq {DefaultKey}
        /\ Cardinality({d \in Added : pc[d] # "queued" /\ ~doneCalled[d]})
               <= args.maxConnections

\* C5 witness: shared policy, cap 1; a descriptor of one key is active and a
\* descriptor of another key waits for its slot.
C5_Witness ==
    /\ args.homogeneous
    /\ args.maxConnections = 1
    /\ \E d, e \in Added :
         /\ desc[d].rateLimiterId # desc[e].rateLimiterId
         /\ pc[d] = "transport"
         /\ pc[e] = "queued"

\* A descriptor fetched over the transport with no pre-request hook.
Fetched(d) == ~desc[d].html /\ ~desc[d].preRequest

\* The completion callback has been invoked for d.
Completed(d) == hist[d].callbacks > 0

\* C6: a descriptor with n retries whose transport call always fails is
\* handed to the transport exactly n+1 times; the completion callback gets
\* the error only after the last attempt, and release is invoked once,
\* after that failure and not before.
C6_RetriesThenRelease ==
    \A d \in Added :
        Fetched(d) =>
            /\ hist[d].transport <= hist[d].retries0 + 1
            /\ hist[d].transport + desc[d].retries
                   = hist[d].retries0 + (IF pc[d] \in {"queued", "granted"}
                                          THEN 0 ELSE 1)
            /\ (Completed(d) /\ hist[d].error) =>
                   /\ hist[d].transport = hist[d].retries0 + 1
                   /\ hist[d].callbacks = 1
                   /\ ~desc[d].callback => hist[d].released = 1
            /\ ~Completed(d) => hist[d].released = 0 /\ ~doneCalled[d]
            /\ hist[d].released <= 1

\* C6 witness: two retries, three failed transport calls, the error
\* delivered once, and the slot released once by the code itself.
C6_Witness ==
    \E d \in Added :
        /\ Fetched(d)
        /\ ~desc[d].callback
        /\ hist[d].retries0 = 2
        /\ hist[d].transport = 3
        /\ Completed(d) /\ hist[d].error
        /\ hist[d].released = 1

\* Every descriptor has invoked release exactly once.
AllReleased == \A d \in Added : hist[d].released = 1

\* C7: every descriptor admitted to a limiter has its release invoked
\* exactly once on every path: whenever nothing more can happen, every
\* descriptor has been released once, and none is ever released twice.
C7_ReleasedOnEveryPath ==
    /\ \A d \in Added : hist[d].released <= 1
    /\ AllReleased \/ ENABLED NextPipeline

\* C8: invoking release again does not free a second slot: the limiter's
\* active count is the number of dispatched descriptors that have not
\* invoked release, it is never negative and never above the cap.
C8_DoubleReleaseFreesOnce ==
    \A k \in DOMAIN limiters :
        /\ limiters[k].running = Cardinality(Unreleased(k))
        /\ limiters[k].running >= 0
        /\ Cardinality(Unreleased(k)) <= limiters[k].maxConnections

\* C8 witness: a descriptor has invoked release twice while its limiter,
\* full again, holds another descriptor back.
C8_Witness ==
    \E d \in Added :
        /\ hist[d].released >= 2
        /\ LET lim == limiters[KeyOf(State, d)]
           IN  lim.running = lim.maxConnections /\ lim.queue # <<>>

\* C9: "drain" is emitted exactly once for each transition of the cluster
\* from non-empty to empty, and not again while the cluster stays empty.
C9_DrainOncePerTransition == drains = empties

\* The descriptor's hook has just reported an error in this step.
HookErrorStep(d) ==
    /\ d \in Added
    /\ pc[d] = "hook"
    /\ hist'[d].hookErrors = hist[d].hookErrors + 1

\* C10, as claimed: once a pre-request hook has reported an error the
\* descriptor is a terminal failure: the callback has the error and the
\* transport is not called for it again.
C10_Original ==
    \A d \in Added :
        hist[d].hookErrors > 0 =>
            /\ pc[d] \in {"callback", "finished"}
            /\ hist[d].callbacks = 1 /\ hist[d].error

\* C10, amended: a hook error is handled as a transport error is.  The
\* transport is not called in that attempt; with retries left the descriptor
\* waits for the retry timer and nothing is delivered or released; with none
\* left the callback gets the error with the release, which the code invokes
\* itself when the caller gave no callback; and after the callback the
\* transport is never called for the descriptor.
C10_HookErrorAsTransportError ==
    [][\A d \in Added :
        /\ HookErrorStep(d) =>
             /\ hist'[d].transport = hist[d].transport
             /\ IF desc[d].retries > 0
                THEN /\ pc'[d] = "retry"
                     /\ hist'[d].callbacks = hist[d].callbacks
                     /\ hist'[d].released = hist[d].released
                     /\ doneCalled'[d] = doneCalled[d]
                ELSE /\ pc'[d] \in {"callback", "finished"}
                     /\ hist'[d].callbacks = hist[d].callbacks + 1
                     /\ hist'[d].error
                     /\ ~desc[d].callback =>
                            hist'[d].released = 1 /\ doneCalled'[d]
        /\ Completed(d) => hist'[d].transport = hist[d].transport]_vars

\* C10 witness: a hook error with a retry left was followed by a transport
\* call, and a later hook error with none left ended the descriptor.
C10_Witness ==
    \E d \in Added :
        /\ hist[d].hookErrors >= 2
        /\ hist[d].transport >= 1
        /\ Completed(d) /\ hist[d].error
        /\ hist[d].released = 1

\* The admitted shapes: a valid URL string, a JSON string, a plain object.
Admitted(x) ==
    \/ x.type = "string" /\ (x.url \/ x.json)
    \/ x.type = "object" /\ x.plain

\* The elements handed to add() that are of no admitted shape, and the rest.
Invalid == {i \in DOMAIN inputs : ~Admitted(inputs[i].input)}
Valid == DOMAIN inputs \ Invalid

\* C11: with skipDuplicates on, a descriptor the dedup collaborator reports
\* as seen is dropped, one it reports as not seen is scheduled exactly once,
\* and one whose check fails is treated as not seen and scheduled as well.
C11_DedupFailOpen ==
    options.skipDuplicates =>
        \A i \in Valid :
            /\ inputs[i].status = "seen" => inputs[i].scheduled = 0
            /\ inputs[i].status = "scheduled" => inputs[i].scheduled = 1
            /\ inputs[i].status = "failed" => inputs[i].scheduled = 1
            /\ inputs[i].scheduled <= 1

FetchedResult(o, response) ==
    Normalize([o EXCEPT !.encoding = ForcedEncoding(o)], response)

\* C13: a descriptor with an inline body never reaches _execute or the
\* transport (no "request", no transport call, no hook, no rotation), its
\* callback gets the result a fetched response with the same body and
\* content type text/html would give, and it holds a slot from its grant to
\* its release, which happens once.
C13_InlineAsFetched ==
    \A d \in Added :
        desc[d].html =>
            /\ hist[d].transport = 0 /\ hist[d].requests = 0
            /\ hist[d].hooks = 0
            /\ \A i \in DOMAIN rotationLog : rotationLog[i].task # d
            /\ desc[d].userAgent = ""
            /\ pc[d] \in {"granted", "callback"} =>
                   d \in ActiveTasks(KeyOf(State, d))
            /\ hist[d].released <= 1
            /\ Completed(d) =>
                   /\ ~hist[d].error
                   /\ hist[d].result =
                        FetchedResult(hist[d].scheduled,
                                      InlineResponse(hist[d].scheduled))

\* The encoding the caller forces on a fetched response: utf8 by forceUTF8
\* or isJson, else the encoding option.
Forced(o) == IF o.forceUTF8 \/ o.isJson THEN "utf8" ELSE o.encoding

\* C14: the body of a fetched response is decoded with the first available
\* of: the encoding the caller forces, the charset of the content-type
\* header, the charset the body declares, utf8.  (An encoding of null asks
\* for no decoding.)
C14_CharsetPriority ==
    \A d \in Added :
        (~desc[d].html /\ Completed(d) /\ ~hist[d].error) =>
            LET o == hist[d].scheduled
                r == hist[d].result.response
                ct == r.headers.contentType
            IN  hist[d].result.decodedAs =
                    IF Forced(o) = "null" THEN "raw"
                    ELSE IF Forced(o) # "undefined" THEN Forced(o)
                    ELSE IF ct.present /\ ct.charset # "null" THEN ct.charset
                    ELSE IF r.body.declared # "null" THEN r.body.declared
                    ELSE "utf8"

\* C14 witness: with no encoding forced, a response without content-type
\* header whose body declares iso-8859-1 was decoded as iso-8859-1.
C14_Witness ==
    \E d \in Added :
        /\ ~desc[d].html /\ Completed(d)
        /\ Forced(hist[d].scheduled) = "undefined"
        /\ ~hist[d].result.response.headers.contentType.present
        /\ hist[d].result.response.body.declared = "iso-8859-1"
        /\ hist[d].result.decodedAs = "iso-8859-1"

\* In this step an attempt of d fails with retries left, or the retry
\* timer of d fires.
RetryStep(d) ==
    /\ d \in Added
    /\ \/ pc[d] \in {"transport", "hook"} /\ pc'[d] = "retry"
       \/ pc[d] = "retry" /\ pc'[d] # "retry"

\* C15: a descriptor whose attempt failed with retries left keeps its
\* slot.  The failing step and the step of the retry timer change no
\* limiter (active count, queue), dispatch nothing and emit no "_release";
\* the timer's step starts the next attempt at once, whatever the interval
\* gate says; and while the retry is waited for the descriptor is active
\* and in no queue.
C15_RetryKeepsSlot ==
    [][\A d \in DOMAIN pc' :
        /\ RetryStep(d) =>
             /\ limiters' = limiters
             /\ dispatchLog' = dispatchLog
             /\ hist'[d].released = hist[d].released
             /\ drains' = drains
             /\ doneCalled'[d] = doneCalled[d]
             /\ pc[d] = "retry" =>
                    /\ pc'[d] = "transport"
                    /\ hist'[d].transport = hist[d].transport + 1
                    /\ desc'[d].retries = desc[d].retries - 1
        /\ pc'[d] = "retry" =>
             /\ d \in {e \in DOMAIN pc' : ~doneCalled'[e]}
             /\ hist'[d].released = 0
             /\ \A k \in DOMAIN limiters' :
                  /\ \A i \in 1..Len(limiters'[k].queue) :
                       limiters'[k].queue[i].task # d
                  /\ k = KeyOf(State, d) => limiters'[k].running >= 1]_vars

\* C15 witness: under an interval, a second attempt is under way although
\* the interval since the limiter's last dispatch has not passed, and
\* another descriptor still waits in the queue.
C15_Witness ==
    \E d \in Added :
        LET lim == limiters[KeyOf(State, d)]
        IN  /\ lim.rateLimit > 0
            /\ lim.elapsed < lim.rateLimit
            /\ pc[d] = "transport"
            /\ hist[d].transport = 2
            /\ lim.running = 1
            /\ lim.queue # <<>>

\* The selections made from the list of user agents, and from the list of
\* proxies, in order.
IsUserAgent(e) == e.list = "userAgents"
IsProxy(e) == e.list = "proxies"
UserAgentLog == SelectSeq(rotationLog, IsUserAgent)
ProxyLog == SelectSeq(rotationLog, IsProxy)

\* Round robin over a list of length n: every selection takes the element
\* at the counter modulo n, the selections go through the list cyclically,
\* one position at a time, and the counter stands one past the last.
RoundRobin(log, n, counter) ==
    /\ \A j \in 1..Len(log) :
         /\ log[j].index = log[j].counter % n
         /\ log[j].index = (j - 1) % n
    /\ counter = IF log = <<>> THEN 0 ELSE log[Len(log)].index + 1

\* The number of selections a descriptor has made.
SelectionsOf(log, d) == Cardinality({j \in 1..Len(log) : log[j].task = d})

\* C16: user-agent and proxy rotation is round robin, and every run of
\* _execute for a descriptor with a list makes one selection from it: as
\* many selections as attempts, each used by its attempt.
C16_RoundRobinEveryDispatch ==
    /\ RoundRobin(UserAgentLog, Len(UserAgents), UAIndex)
    /\ RoundRobin(ProxyLog, Len(Proxies), proxyIndex)
    /\ \A d \in Added :
         /\ SelectionsOf(UserAgentLog, d) = hist[d].transport
         /\ SelectionsOf(ProxyLog, d) = hist[d].transport

\* The key of a rateLimiterId under the per-key policy.
PerKey(id) == IF id = Undefined THEN DefaultKey ELSE id

\* The descriptors of a key that wait in a queue, and that hold a slot.
WaitingOf(k) == {d \in Added : PerKey(desc[d].rateLimiterId) = k /\ pc[d] = "queued"}
HoldingOf(k) ==
    {d \in Added :
        PerKey(desc[d].rateLimiterId) = k /\ pc[d] # "queued" /\ ~doneCalled[d]}

\* The tasks in a limiter's queue.
TasksIn(q) == {q[i].task : i \in 1..Len(q)}

\* In a state under the per-key policy there is one limiter for
\* each key looked up and none else, the undefined key being the default
\* key; each has the default configuration; and each limiter's queue and
\* active count are those of the descriptors of its own key.
PerKeyAccounting ==
    ~args.homogeneous =>
        /\ DOMAIN limiters = {PerKey(desc[d].rateLimiterId) : d \in Added}
        /\ \A k \in DOMAIN limiters :
             /\ limiters[k].maxConnections = options.maxConnections
             /\ limiters[k].rateLimit = options.rateLimit
             /\ TasksIn(limiters[k].queue) = WaitingOf(k)
             /\ limiters[k].running = Cardinality(HoldingOf(k))

\* C17: under the per-key policy the cluster holds one limiter per key: a
\* limiter is created, with the default configuration, on the first lookup
\* of its key (the undefined key being the default key) and then stays; a
\* later lookup finds it as it was: the submission either takes a free slot
\* or joins the queue behind the entries already there; and a step changes
\* the limiter of one key at most, budgets and queues of the keys being
\* kept apart.
C17_OneLimiterPerKey ==
    [][~args.homogeneous =>
        /\ PerKeyAccounting'
        /\ DOMAIN limiters \subseteq DOMAIN limiters'
        /\ Cardinality({k \in DOMAIN limiters :
                           limiters'[k] # limiters[k]}) <= 1
        /\ Len(desc') > Len(desc) =>
             LET d == Len(desc')
                 k == PerKey(desc'[d].rateLimiterId)
             IN  /\ \A j \in DOMAIN limiters :
                      j # k => limiters'[j] = limiters[j]
                 /\ k \in DOMAIN limiters =>
                      \/ /\ limiters'[k].running = limiters[k].running + 1
                         /\ limiters'[k].queue = limiters[k].queue
                      \/ /\ limiters'[k].running = limiters[k].running
                         /\ limiters'[k].queue =
                              Append(limiters[k].queue,
                                     [priority |-> Clamp(desc'[d].priority),
                                      task |-> d])]_vars

\* C17 witness: per-key policy with cap 1; the limiter of key 1 is full and
\* holds a descriptor back while the default key's limiter, looked up with
\* an undefined key, runs a descriptor of its own.
C17_Witness ==
    /\ ~args.homogeneous
    /\ args.maxConnections = 1
    /\ DOMAIN limiters = {DefaultKey, 1}
    /\ limiters[1].running = 1 /\ limiters[1].queue # <<>>
    /\ limiters[DefaultKey].running = 1
    /\ \E d \in Added : desc[d].rateLimiterId = Undefined /\ pc[d] # "queued"

\* This step is a call of setLimiter that changes the interval of the
\* limiter of key k, or creates it.
SetRateLimitStep(k) ==
    /\ desc' = desc
    /\ \/ k \in DOMAIN limiters /\ limiters'[k].rateLimit # limiters[k].rateLimit
       \/ k \notin DOMAIN limiters

\* This step dispatches from the limiter of key k.
DispatchStep(k) ==
    /\ Len(dispatchLog') = Len(dispatchLog) + 1
    /\ dispatchLog'[Len(dispatchLog')].key = k

C19_IntervalForcesOne ==
    [][\A k \in DOMAIN limiters' :
        limiters'[k].rateLimit > 0 =>
            /\ limiters'[k].maxConnections = 1
            /\ DispatchStep(k) => limiters'[k].running = 1]_vars

\* C19 witness: a limiter created with maximum 2 and no interval was given
\* an interval; now one task is active and it holds another back.
C19_Witness ==
    /\ args.maxConnections = 2 /\ args.rateLimit = 0
    /\ \E k \in DOMAIN limiters :
         /\ limiters[k].rateLimit > 0
         /\ limiters[k].maxConnections = 1
         /\ limiters[k].running = 1
         /\ limiters[k].queue # <<>>

\* The positions of an event in a descriptor's trace.
At(d, e) == {i \in 1..Len(hist[d].trace) : hist[d].trace[i] = e}

\* C20: for a descriptor fetched over the transport the events come in
\* this order: "schedule" first and the submission to the limiter after
\* it; "request", unless suppressed, after the grant of the slot and
\* directly before each call of the transport; the completion callback
\* after the last call of the transport has settled; "_release" directly
\* after a call of the limiter's done.
C20_EventOrder ==
    \A d \in Added :
        ~desc[d].html =>
            LET tr == hist[d].trace
            IN  /\ tr[1] = "schedule" /\ At(d, "schedule") = {1}
                /\ At(d, "submit") = {2}
                /\ \A i \in At(d, "transport") :
                     /\ \E g \in At(d, "grant") : g < i
                     /\ IF desc[d].skipEventRequest
                        THEN tr[i - 1] # "request"
                        ELSE tr[i - 1] = "request"
                /\ \A i \in At(d, "request") :
                     /\ ~desc[d].skipEventRequest
                     /\ i < Len(tr) /\ tr[i + 1] = "transport"
                /\ Cardinality(At(d, "transport")) = hist[d].transport
                /\ \A c \in At(d, "callback") :
                     /\ tr[c - 1] = "settled"
                     /\ \A i \in At(d, "transport") : i < c - 1
                     /\ Cardinality(At(d, "settled")) = hist[d].transport
                /\ \A i \in At(d, "_release") :
                     tr[i - 1] = "done" /\ doneCalled[d]

\* C20 witness: a descriptor went the whole way with one retry: scheduled,
\* submitted, granted, requested and fetched twice, completed, released.
C20_Witness ==
    \E d \in Added :
        /\ ~desc[d].skipEventRequest
        /\ hist[d].trace =
             <<"schedule", "submit", "grant", "request", "transport",
               "settled", "request", "transport", "settled", "callback",
               "done", "_release">>

\* The transport has succeeded for d, or d needs no transport.
Succeeded(d) ==
    IF desc[d].html THEN pc[d] \notin {"queued", "granted"}
    ELSE hist[d].settled.ok

\* The response and the options _handler was handed for d.
Handed(d) ==
    IF desc[d].html THEN InlineResponse(hist[d].scheduled)
    ELSE hist[d].settled.response
HandedOptions(d) ==
    IF desc[d].html THEN hist[d].scheduled
    ELSE [hist[d].scheduled EXCEPT
             !.encoding = ForcedEncoding(hist[d].scheduled)]

\* The failures normalization meets on what _handler was handed for d.
Failures(d) == Logged(HandedOptions(d), Handed(d))

\* C21: once the transport has succeeded (or an inline body is handled),
\* a failure of decoding, of JSON parsing or of building the document does
\* not fail the request: the completion callback is invoked once, with no
\* error, the response and release; no retry is taken (the descriptor is
\* not waiting for the retry timer, its retry count is what the failed
\* transport calls before left of it, and no transport call follows); and
\* the body is what it was before the step that failed: the Buffer when
\* decoding failed, the result of the decoding step when JSON parsing
\* failed, and the result of the JSON step, with no document, when
\* building the document failed.
C21_NormalizationNeverFails ==
    \A d \in Added :
        (Succeeded(d) /\ Failures(d) # {}) =>
            LET r == hist[d].result
                o == HandedOptions(d)
                asDecoded ==
                    IF o.encoding = "null"
                    THEN IF Handed(d).body.buffer THEN "buffer" ELSE "string"
                    ELSE IF "decode" \in Failures(d) THEN "buffer" ELSE "text"
            IN  /\ hist[d].callbacks = 1 /\ ~hist[d].error
                /\ r.response = Handed(d)
                /\ r.logged = Failures(d)
                /\ pc[d] \in {"callback", "finished"}
                /\ hist[d].released <= 1
                /\ desc[d].retries =
                       hist[d].retries0 -
                           (IF desc[d].html THEN 0 ELSE hist[d].transport - 1)
                /\ \A c \in At(d, "callback"), i \in At(d, "transport") :
                       i < c
                /\ "json" \in Failures(d) => r.body = asDecoded
                /\ "json" \notin Failures(d) =>
                       r.body = IF o.isJson THEN "json" ELSE asDecoded
                /\ "document" \in Failures(d) => ~r.document

\* C21 witness: a fetched descriptor with a retry left whose response
\* could neither be decoded nor made a document was completed with no
\* error, its body still the Buffer, its retry not taken, and released.
C21_Witness ==
    \E d \in Added :
        /\ ~desc[d].html /\ hist[d].retries0 = 1 /\ desc[d].retries = 1
        /\ hist[d].settled.ok
        /\ Failures(d) = {"decode", "document"}
        /\ hist[d].callbacks = 1 /\ ~hist[d].error
        /\ hist[d].result.body = "buffer"
        /\ hist[d].transport = 1
        /\ hist[d].released = 1

\* The descriptors that are in a limiter's queue, granted a slot and not
\* yet run, in flight at the transport, or waiting on the retry timer.
Unfinished(position) ==
    {d \in DOMAIN position :
        position[d] \in {"queued", "granted", "transport", "retry"}}

\* C22: a step that emits "drain" ends in a state where every limiter has
\* no active slot and an empty queue, and where no descriptor is queued,
\* in flight at the transport or waiting on a retry timer.
C22_DrainOnlyWhenEmpty ==
    [][drains' > drains =>
          /\ \A k \in DOMAIN limiters' :
                limiters'[k].running = 0 /\ limiters'[k].queue = <<>>
          /\ Unfinished(pc') = {}]_vars

\* C22 witness: of two descriptors that were both released, one after a
\* retry, only one release was answered by "drain": the other came while
\* the cluster still had work.
C22_Witness ==
    /\ drains = 1
    /\ \E d, e \in Added :
         /\ d # e
         /\ hist[d].released = 1 /\ hist[e].released = 1
         /\ hist[e].transport > 1

Sent(h) == {d \in DOMAIN h : h[d].via = "send"}

\* A step of send(): the call itself or a later step of what it started.
SendStep(d) ==
    /\ d \in Sent(hist')
    /\ \/ d \notin DOMAIN hist
       \/ <<pc[d], desc[d], hist[d]>> # <<pc'[d], desc'[d], hist'[d]>>

\* C24: no step of a send call touches the cluster (its limiters, their
\* active counts and queues, the dispatches made) or emits "drain"; a sent
\* descriptor is in no limiter's queue and is granted no slot, emits
\* neither "schedule" nor "_release", runs no pre-request hook, and, when
\* the caller gave no retry count, is handed to the transport once, also
\* when that attempt has failed.
C24_SendBypassesCluster ==
    /\ [][\A d \in DOMAIN hist' :
            SendStep(d) =>
                UNCHANGED <<limiters, dispatchLog, drains, empties>>]_vars
    /\ [](\A d \in Sent(hist) :
            /\ \A k \in DOMAIN limiters : d \notin TasksIn(limiters[k].queue)
            /\ \A i \in DOMAIN dispatchLog : dispatchLog[i].task # d
            /\ pc[d] \notin {"queued", "granted", "hook", "finished"}
            /\ \A e \in {"schedule", "submit", "grant", "done", "_release"} :
                  At(d, e) = {}
            /\ hist[d].released = 0 /\ ~desc[d].release /\ ~doneCalled[d]
            /\ hist[d].hooks = 0
            /\ "retries" \notin DOMAIN hist[d].scheduled =>
                  /\ hist[d].transport = 1
                  /\ pc[d] # "retry"
                  /\ hist[d].retries0 = 0)

\* C24 witness: while a scheduled descriptor holds the limiter's only
\* slot, a descriptor sent with a pre-request hook and no retry count has
\* failed at its one transport attempt and been handed to its callback.
C24_Witness ==
    \E d, e \in Added :
        /\ hist[d].via = "send" /\ hist[e].via = "add"
        /\ "retries" \notin DOMAIN hist[d].scheduled
        /\ hist[d].scheduled.preRequest
        /\ hist[d].transport = 1 /\ hist[d].error /\ pc[d] = "callback"
        /\ args.maxConnections = 1
        /\ pc[e] = "transport" /\ limiters[DefaultKey].running = 1

\* The element of inputs that holds element j of call c.
InputOf(c, j) == calls[c].first + j - 1

Dispatched == {dispatchLog[i].task : i \in DOMAIN dispatchLog}

\* C26: when every dispatched task calls done, from some point on every
\* submitted task has been dispatched and every limiter reports empty:
\* no active slot, nothing queued; also with an interval, which defers
\* dispatch to the timer, and with the interval changed under way.
C26_LimiterProgress ==
    <>[](/\ Added \subseteq Dispatched
         /\ \A d \in Added : pc[d] = "finished" /\ doneCalled[d]
         /\ \A k \in DOMAIN limiters :
               limiters[k].running = 0 /\ limiters[k].queue = <<>>)

\* C26 witness: a limiter created without interval was given one while a
\* task was queued behind an active one; that task was dispatched later,
\* after the interval had been waited for, and the limiter is empty.
C26_Witness ==
    /\ args.rateLimit = 0 /\ changes = 1
    /\ limiters[DefaultKey].rateLimit > 0
    /\ \E i \in DOMAIN dispatchLog :
         /\ i > 1 /\ dispatchLog[i].gap >= limiters[DefaultKey].rateLimit
    /\ Added = 1..NumProgress /\ Added \subseteq Dispatched
    /\ limiters[DefaultKey].running = 0
    /\ limiters[DefaultKey].queue = <<>>

=============================================================================

